---- MODULE Spec2Model ----
(***************************************************************************)
(* A model of speedgo's core: the target resolver (splitTargets), the ping *)
(* orchestrator and echo session (RunPing, pingTargets, pingTarget,        *)
(* pingSession.ping, calculateStats, printResults) and the transfer engine *)
(* (measureUploadSpeed / measureDownloadSpeed and their workers).          *)
(*                                                                         *)
(* Strings are sequences of one-character strings.  Durations are integer  *)
(* nanoseconds, as time.Duration is.                                       *)
(***************************************************************************)
EXTENDS Integers, Sequences, FiniteSets

(***************************************************************************)
(* Bounds of the model.                                                    *)
(***************************************************************************)
\* longest raw -targets string handed to splitTargets in SpecSplit
MaxLen == 4
\* most targets named on the command line in Spec
MaxTargets == 2
\* largest -count in SpecLoop (one target, full network)
MaxCount == 2
\* largest -concurrency
MaxConc == 2
\* number of distinct round-trip times the clock can report
MaxRTT == 2
\* packets a raw socket buffers before the kernel drops new ones
MaxInbox == 1
\* most network operations (requests and body reads) the workers of one
\* transfer run start in SpecTransfer
MaxOps == 2
\* attempt numbers looked at on each side of the end of the 16-bit range and
\* at the start of a session in SpecSeq
SeqSpan == 8

(***************************************************************************)
(* Target resolver: src/core/ping.go, splitAndTrim / splitTargets /        *)
(* isValidHostname.                                                        *)
(***************************************************************************)
\* the characters input strings are drawn from
Alphabet == {"a", "1", ":", ".", ",", " ", "\t"}

\* unicode.IsSpace restricted to Alphabet (strings.TrimSpace uses it)
IsSpace(c) == c \in {" ", "\t"}

HostnameMaxLen == 255

RECURSIVE TrimLeft(_)
TrimLeft(s) ==
  IF s # <<>> /\ IsSpace(Head(s)) THEN TrimLeft(Tail(s)) ELSE s

RECURSIVE TrimRight(_)
TrimRight(s) ==
  IF s # <<>> /\ IsSpace(s[Len(s)]) THEN TrimRight(SubSeq(s, 1, Len(s) - 1)) ELSE s

\* strings.TrimSpace
TrimSpace(s) == TrimRight(TrimLeft(s))

\* strings.Split(s, sep) for a one-character sep: always at least one part
RECURSIVE StringsSplit(_, _)
StringsSplit(s, sep) ==
  IF \A i \in 1..Len(s) : s[i] # sep
    THEN <<s>>
    ELSE LET k == CHOOSE i \in 1..Len(s) : s[i] = sep /\ \A j \in 1..(i - 1) : s[j] # sep
         IN  <<SubSeq(s, 1, k - 1)>> \o StringsSplit(SubSeq(s, k + 1, Len(s)), sep)

\* the loop of splitAndTrim over parts
RECURSIVE TrimAll(_)
TrimAll(parts) ==
  IF parts = <<>> THEN <<>>
  ELSE LET trimmed == TrimSpace(Head(parts))
       IN  (IF trimmed # <<>> THEN <<trimmed>> ELSE <<>>) \o TrimAll(Tail(parts))

splitAndTrim(input, sep) == TrimAll(StringsSplit(input, sep))

IsDigit(c) == c = "1"
IsHex(c) == c \in {"a", "1"}

\* value of a decimal field over the digits of Alphabet
RECURSIVE DecValue(_)
DecValue(f) == IF f = <<>> THEN 0 ELSE DecValue(SubSeq(f, 1, Len(f) - 1)) * 10 + 1

\* net.ParseIP, dotted-quad form: four decimal fields 0..255
parseIPv4(s) ==
  LET f == StringsSplit(s, ".")
  IN  /\ Len(f) = 4
      /\ \A i \in 1..4 : /\ f[i] # <<>>
                         /\ \A j \in 1..Len(f[i]) : IsDigit(f[i][j])
                         /\ Len(f[i]) <= 3
                         /\ DecValue(f[i]) <= 255

\* a group of 1..4 hex digits
IsGroup(g) == Len(g) \in 1..4 /\ \A j \in 1..Len(g) : IsHex(g[j])

\* colon-separated hex groups; the empty string is zero groups
Groups(s) == IF s = <<>> THEN <<>> ELSE StringsSplit(s, ":")

\* net.ParseIP, colon form: eight groups, or fewer with exactly one "::"
parseIPv6(s) ==
  \/ LET g == Groups(s) IN Len(g) = 8 /\ \A i \in 1..8 : IsGroup(g[i])
  \/ \E k \in 1..(Len(s) - 1) :
       /\ s[k] = ":" /\ s[k + 1] = ":"
       /\ LET l == Groups(SubSeq(s, 1, k - 1))
              r == Groups(SubSeq(s, k + 2, Len(s)))
          IN  /\ \A i \in 1..Len(l) : IsGroup(l[i])
              /\ \A i \in 1..Len(r) : IsGroup(r[i])
              /\ Len(l) + Len(r) <= 7

\* net.ParseIP(target) != nil
ParseIP(s) ==
  IF \E i \in 1..Len(s) : s[i] = "." /\ \A j \in 1..(i - 1) : s[j] # ":"
    THEN parseIPv4(s)
    ELSE IF \E i \in 1..Len(s) : s[i] = ":" THEN parseIPv6(s) ELSE FALSE

\* strings.ContainsAny(s, chars)
ContainsAny(s, chars) == \E i \in 1..Len(s) : s[i] \in chars

isValidHostname(hostname) ==
  IF Len(hostname) = 0 \/ Len(hostname) > HostnameMaxLen
    THEN FALSE
    ELSE ~ContainsAny(hostname, {" "})

\* the loop of splitTargets over the trimmed segments
RECURSIVE KeepValid(_)
KeepValid(items) ==
  IF items = <<>> THEN <<>>
  ELSE (IF ParseIP(Head(items)) \/ isValidHostname(Head(items))
          THEN <<Head(items)>> ELSE <<>>) \o KeepValid(Tail(items))

splitTargets(targets) == KeepValid(splitAndTrim(targets, ","))

(***************************************************************************)
(* Ping: state of one RunPing call (src/core/ping.go).                     *)
(***************************************************************************)
VARIABLES
  env,         \* what the network and the clock can do in this run
  targetsStr,  \* the -targets flag
  config,      \* PingConfig: Targets, Count, Concurrency
  ctxDone,     \* whether ctx passed to RunPing is cancelled
  mainpc,      \* where RunPing / pingTargets stands
  retErr,      \* what RunPing returned
  spawned,     \* goroutines started by the loop of pingTargets
  wg,          \* sync.WaitGroup counter
  semaphore,   \* elements buffered in the semaphore channel
  gpc,         \* per goroutine: where it stands
  result,      \* per goroutine: pingTarget's local result
  loopI,       \* per goroutine: pingTarget's loop variable i
  session,     \* per goroutine: the pingSession (conn, id, seq, target)
  inbox,       \* per goroutine: packets queued on the session's raw socket
  lastRead,    \* per goroutine: what the last attempt read from the socket
  results,     \* the results slice of pingTargets
  writes,      \* per slot of results: the goroutines that assigned it, in order
  printed      \* rows written by printResults

pingVars == <<env, targetsStr, config, ctxDone, mainpc, retErr, spawned, wg,
              semaphore, gpc, result, loopI, session, inbox, lastRead, results,
              writes, printed>>

(***************************************************************************)
(* Resolver runs (SpecSplit) and transfer runs (SpecTransfer) have their   *)
(* own state; a ping run leaves it alone.                                  *)
(***************************************************************************)
VARIABLES
  input,       \* the string handed to splitTargets
  kept,        \* what splitTargets returned
  splitpc      \* "idle", "call" or "done"

splitVars == <<input, kept, splitpc>>

VARIABLES
  xcfg,        \* Direction ("upload" / "download") and Concurrency
  xpc,         \* where measureUploadSpeed / measureDownloadSpeed stands
  xctxDone,    \* whether the context with the test's timeout is done
  started,     \* workers started by the loop
  xwg,         \* sync.WaitGroup counter
  wpc,         \* per worker: where it stands
  ops,         \* requests and body reads started in the run
  pending,     \* per worker: the value it is sending on a channel
  bytesChan,   \* buffer of the result channel
  errChan,     \* buffer of the error channel
  closed,      \* which of the two channels are closed
  closerpc,    \* where the goroutine that waits and closes stands
  totalBytes,  \* the accumulator
  lastError,   \* the collector's lastError
  stats,       \* what the function returned
  reader,      \* per worker: count of the countingReader of its POST
  tally        \* what the transport and the channels carried in the run

xferVars == <<xcfg, xpc, xctxDone, started, xwg, wpc, ops, pending, bytesChan,
              errChan, closed, closerpc, totalBytes, lastError, stats, reader,
              tally>>

VARIABLES
  attempt,     \* the number k of the attempt a session is making
  reply,       \* the reply to attempt k as icmp.ParseMessage returns it
  verdict,     \* what the reply check of the attempt said
  seqpc        \* "idle", "written", "replied" or "checked"

seqVars == <<attempt, reply, verdict, seqpc>>

nonPing == <<splitVars, xferVars, seqVars>>

Idx == 1..MaxTargets

\* os.Getpid() & 0xffff
Pid == 4242

\* one nanosecond-valued step of the clock
RttUnit == 1500

\* the zero value of PingResult
ZeroResult ==
  [Target |-> <<>>, RTTs |-> <<>>, MinRTT |-> 0, MaxRTT |-> 0, AvgRTT |-> 0,
   Lost |-> 0, Errors |-> <<>>]

NoSession == [conn |-> "none", id |-> 0, seq |-> 0, target |-> <<>>]

\* an echo reply sent by host src; ReadFrom returns the sender's address and
\* pingSession.ping drops it
EchoReplyFrom(src, id, seq) ==
  [type |-> "EchoReply", id |-> id, seq |-> seq, src |-> src]

\* an echo reply in a run with one target, whose sender is not told apart
EchoReply(id, seq) == EchoReplyFrom(<<>>, id, seq)
\* an ICMP message of another type (icmp.ParseMessage succeeds)
Unreachable == [type |-> "DestinationUnreachable", id |-> 0, seq |-> 0, src |-> <<>>]
\* bytes icmp.ParseMessage rejects
Malformed == [type |-> "malformed", id |-> 0, seq |-> 0, src |-> <<>>]
NoPacket == [type |-> "none", id |-> 0, seq |-> 0, src |-> <<>>]

\* errors of pingSession.ping before the read
SendErrors == {"sending ICMP message", "setting read deadline"}

\* the host names targets are made of
Names == {<<"a">>, <<"1">>}

\* one target, every kind of packet: the per-target loop in full
LoopEnv ==
  [rtts |-> {RttUnit * k : k \in 1..MaxRTT},
   packets |-> {EchoReply(id, s) : id \in {Pid, Pid + 1}, s \in 1..MaxCount}
                 \cup {Unreachable, Malformed},
   sendErrs |-> SendErrors,
   cap |-> MaxInbox]

\* several targets, a network in which every host answers the first request
\* or not at all
OrchEnv ==
  [rtts |-> {RttUnit},
   packets |-> {EchoReplyFrom(h, Pid, 1) : h \in Names},
   sendErrs |-> {"sending ICMP message"},
   cap |-> 1]

\* -count values of the several-target runs
OrchCounts == {-1, 0, 1}

RECURSIVE Join(_)
Join(names) ==
  IF names = <<>> THEN <<>>
  ELSE IF Len(names) = 1 THEN Head(names)
  ELSE Head(names) \o <<",">> \o Join(Tail(names))

\* -targets strings naming n hosts
TargetInputs(n) == {Join(t) : t \in [1..n -> Names]}

(***************************************************************************)
(* calculateStats and printResults.                                        *)
(***************************************************************************)
\* the loop of calculateStats: acc is <<MinRTT, MaxRTT, total>>
RECURSIVE StatsLoop(_, _)
StatsLoop(rtts, acc) ==
  IF rtts = <<>> THEN acc
  ELSE LET rtt == Head(rtts)
       IN  StatsLoop(Tail(rtts),
                     <<IF rtt < acc[1] THEN rtt ELSE acc[1],
                       IF rtt > acc[2] THEN rtt ELSE acc[2],
                       acc[3] + rtt>>)

calculateStats(r) ==
  IF Len(r.RTTs) = 0 THEN r
  ELSE LET acc == StatsLoop(r.RTTs, <<r.RTTs[1], r.RTTs[1], 0>>)
       IN  [r EXCEPT !.MinRTT = acc[1], !.MaxRTT = acc[2],
                     !.AvgRTT = acc[3] \div Len(r.RTTs)]

\* time.Duration.Microseconds
Microseconds(d) == d \div 1000

\* a formatted latency: the text N/A, or a number of microseconds printed
\* as milliseconds
NA == [na |-> TRUE, us |-> 0]
Ms(d) == [na |-> FALSE, us |-> Microseconds(d)]

\* a formatter that computes the loss before it looks at the samples
printRowEager(r) ==
  [Target |-> r.Target,
   min |-> IF Len(r.RTTs) = 0 THEN NA ELSE Ms(r.MinRTT),
   avg |-> IF Len(r.RTTs) = 0 THEN NA ELSE Ms(r.AvgRTT),
   max |-> IF Len(r.RTTs) = 0 THEN NA ELSE Ms(r.MaxRTT),
   divides |-> TRUE,
   lossNum |-> r.Lost * 100, lossDiv |-> Len(r.RTTs) + r.Lost,
   errors |-> r.Errors]

\* one row of printResults.  The loss is printed as lossNum / lossDiv
\* percent: the literal 100 (no division made) when there is no sample,
\* float64(Lost) * 100 / float64(len(RTTs) + Lost) otherwise.
printRow(r) ==
  IF Len(r.RTTs) = 0
    THEN [Target |-> r.Target, min |-> NA, avg |-> NA, max |-> NA,
          divides |-> FALSE, lossNum |-> 100, lossDiv |-> 1,
          errors |-> r.Errors]
    ELSE [Target |-> r.Target,
          min |-> Ms(r.MinRTT), avg |-> Ms(r.AvgRTT), max |-> Ms(r.MaxRTT),
          divides |-> TRUE,
          lossNum |-> r.Lost * 100, lossDiv |-> Len(r.RTTs) + r.Lost,
          errors |-> <<>>]

printResults(rs) == [i \in 1..Len(rs) |-> printRow(rs[i])]

(***************************************************************************)
(* RunPing, NewPingConfig and the body of pingTargets.                     *)
(***************************************************************************)
NoAttempt == [seq |-> 0, reads |-> 0, pkt |-> NoPacket, ok |-> FALSE]

PingIdle ==
  /\ ctxDone = FALSE
  /\ retErr = "none"
  /\ spawned = 0
  /\ wg = 0
  /\ semaphore = 0
  /\ gpc = [i \in Idx |-> "idle"]
  /\ result = [i \in Idx |-> ZeroResult]
  /\ loopI = [i \in Idx |-> 0]
  /\ session = [i \in Idx |-> NoSession]
  /\ inbox = [i \in Idx |-> <<>>]
  /\ lastRead = [i \in Idx |-> NoAttempt]
  /\ results = <<>>
  /\ writes = [i \in Idx |-> <<>>]
  /\ printed = <<>>

\* RunPing up to the return of NewPingConfig
NewPingConfig ==
  /\ mainpc = "RunPing"
  /\ LET targets == splitTargets(targetsStr)
     IN  IF Len(targets) = 0
           THEN /\ retErr' = "no valid targets provided"
                /\ mainpc' = "returned"
                /\ UNCHANGED config
           ELSE /\ config' = [config EXCEPT !.Targets = targets]
                /\ mainpc' = "pingTargets"
                /\ UNCHANGED retErr
  /\ UNCHANGED <<nonPing, env, targetsStr, ctxDone, spawned, wg, semaphore, gpc, result,
                 loopI, session, inbox, lastRead, results, writes, printed>>

\* pingTargets: results := make(...); semaphore := make(chan, Concurrency).
\* make panics on a negative capacity.
pingTargetsBegin ==
  /\ mainpc = "pingTargets"
  /\ results' = [i \in 1..Len(config.Targets) |-> ZeroResult]
  /\ mainpc' = IF config.Concurrency < 0 THEN "panic"
               ELSE IF Len(config.Targets) = 0 THEN "wait" ELSE "spawn"
  /\ UNCHANGED <<nonPing, env, targetsStr, config, ctxDone, retErr, spawned, wg, semaphore,
                 gpc, result, loopI, session, inbox, lastRead, writes, printed>>

\* one iteration of the range loop: wg.Add(1); go func(idx, target)
Spawn ==
  /\ mainpc = "spawn"
  /\ spawned < Len(config.Targets)
  /\ wg' = wg + 1
  /\ spawned' = spawned + 1
  /\ gpc' = [gpc EXCEPT ![spawned + 1] = "acquire"]
  /\ mainpc' = IF spawned + 1 = Len(config.Targets) THEN "wait" ELSE "spawn"
  /\ UNCHANGED <<nonPing, env, targetsStr, config, ctxDone, retErr, semaphore, result,
                 loopI, session, inbox, lastRead, results, writes, printed>>

\* wg.Wait() returns; pingTargets returns results
Wait ==
  /\ mainpc = "wait"
  /\ wg = 0
  /\ mainpc' = "printResults"
  /\ UNCHANGED <<nonPing, env, targetsStr, config, ctxDone, retErr, spawned, wg, semaphore,
                 gpc, result, loopI, session, inbox, lastRead, results, writes,
                 printed>>

\* printResults(results); return nil
ReportResults ==
  /\ mainpc = "printResults"
  /\ printed' = printResults(results)
  /\ retErr' = "nil"
  /\ mainpc' = "returned"
  /\ UNCHANGED <<nonPing, env, targetsStr, config, ctxDone, spawned, wg, semaphore, gpc,
                 result, loopI, session, inbox, lastRead, results, writes>>

\* the caller's context is cancelled
Cancel ==
  /\ mainpc \in {"pingTargets", "spawn", "wait"}
  /\ ~ctxDone
  /\ ctxDone' = TRUE
  /\ UNCHANGED <<nonPing, env, targetsStr, config, mainpc, retErr, spawned, wg, semaphore,
                 gpc, result, loopI, session, inbox, lastRead, results, writes,
                 printed>>

\* the process is alive: no goroutine has panicked
Alive == mainpc # "panic"

(***************************************************************************)
(* The goroutine of pingTargets and pingTarget.                            *)
(***************************************************************************)
\* a goroutine that does not wait for room in the semaphore
AcquireUnbounded(idx) ==
  /\ Alive
  /\ gpc[idx] = "acquire"
  /\ semaphore' = semaphore + 1
  /\ gpc' = [gpc EXCEPT ![idx] = "pingTarget"]
  /\ UNCHANGED <<nonPing, env, targetsStr, config, ctxDone, mainpc, retErr, spawned, wg,
                 result, loopI, session, inbox, lastRead, results, writes, printed>>

\* semaphore <- struct{}{}
Acquire(idx) ==
  /\ Alive
  /\ gpc[idx] = "acquire"
  /\ semaphore < config.Concurrency
  /\ semaphore' = semaphore + 1
  /\ gpc' = [gpc EXCEPT ![idx] = "pingTarget"]
  /\ UNCHANGED <<nonPing, env, targetsStr, config, ctxDone, mainpc, retErr, spawned, wg,
                 result, loopI, session, inbox, lastRead, results, writes, printed>>

\* a closure that reads the loop's index variable instead of its own idx
ReturnLoopVar(idx, res) ==
  /\ results' = [results EXCEPT ![spawned] = res]
  /\ writes' = [writes EXCEPT ![spawned] = Append(@, idx)]
  /\ result' = [result EXCEPT ![idx] = res]
  /\ session' = [session EXCEPT ![idx].conn = IF @ = "open" THEN "closed" ELSE @]
  /\ inbox' = [inbox EXCEPT ![idx] = <<>>]
  /\ gpc' = [gpc EXCEPT ![idx] = "exit"]

\* a pingTarget without the deferred conn.Close()
ReturnLeaveOpen(idx, res) ==
  /\ results' = [results EXCEPT ![idx] = res]
  /\ writes' = [writes EXCEPT ![idx] = Append(@, idx)]
  /\ result' = [result EXCEPT ![idx] = res]
  /\ inbox' = [inbox EXCEPT ![idx] = <<>>]
  /\ gpc' = [gpc EXCEPT ![idx] = "exit"]
  /\ UNCHANGED session

\* pingTarget returns res: the deferred conn.Close() runs (its error goes to
\* the local result, after the return value was set), and the goroutine
\* assigns results[idx]
Return(idx, res) ==
  /\ results' = [results EXCEPT ![idx] = res]
  /\ writes' = [writes EXCEPT ![idx] = Append(@, idx)]
  /\ result' = [result EXCEPT ![idx] = res]
  /\ session' = [session EXCEPT ![idx].conn = IF @ = "open" THEN "closed" ELSE @]
  /\ inbox' = [inbox EXCEPT ![idx] = <<>>]
  /\ gpc' = [gpc EXCEPT ![idx] = "exit"]

\* pingTarget up to the loop: the result, net.ResolveIPAddr, icmp.ListenPacket
\* and the session
pingTargetOpen(idx) ==
  /\ Alive
  /\ gpc[idx] = "pingTarget"
  /\ LET target == config.Targets[idx]
         r0 == [ZeroResult EXCEPT !.Target = target]
     IN  IF config.Count < 0
           THEN \* make([]time.Duration, 0, config.Count) panics
                /\ mainpc' = "panic"
                /\ UNCHANGED <<results, writes, result, session, inbox, gpc, loopI>>
           ELSE /\ UNCHANGED mainpc
                /\ \/ /\ Return(idx, [r0 EXCEPT !.Errors = <<"resolving address">>,
                                                !.Lost = config.Count])
                      /\ UNCHANGED loopI
                   \/ /\ Return(idx, [r0 EXCEPT !.Errors = <<"creating ICMP connection">>,
                                                !.Lost = config.Count])
                      /\ UNCHANGED loopI
                   \/ /\ result' = [result EXCEPT ![idx] = r0]
                      /\ session' = [session EXCEPT ![idx] =
                                       [conn |-> "open", id |-> Pid, seq |-> 1,
                                        target |-> target]]
                      /\ loopI' = [loopI EXCEPT ![idx] = 0]
                      /\ gpc' = [gpc EXCEPT ![idx] = "loop"]
                      /\ UNCHANGED <<results, writes, inbox>>
  /\ UNCHANGED <<nonPing, env, targetsStr, config, ctxDone, retErr, spawned, wg, semaphore,
                 lastRead, printed>>

\* an iteration that moves to the next sequence number after a reply only
EndAttemptKeepSeq(idx, res, att) ==
  /\ result' = [result EXCEPT ![idx] = res]
  /\ session' = [session EXCEPT ![idx].seq = IF att.ok THEN @ + 1 ELSE @]
  /\ loopI' = [loopI EXCEPT ![idx] = @ + 1]
  /\ lastRead' = [lastRead EXCEPT ![idx] = att]
  /\ gpc' = [gpc EXCEPT ![idx] = "loop"]

\* the end of one iteration: result updated, session.seq++, the sleep, i++
EndAttempt(idx, res, att) ==
  /\ result' = [result EXCEPT ![idx] = res]
  /\ session' = [session EXCEPT ![idx].seq = @ + 1]
  /\ loopI' = [loopI EXCEPT ![idx] = @ + 1]
  /\ lastRead' = [lastRead EXCEPT ![idx] = att]
  /\ gpc' = [gpc EXCEPT ![idx] = "loop"]

\* a failed attempt that records the error and forgets the loss
FailedUncounted(r, err) == [r EXCEPT !.Errors = Append(@, err)]

Failed(r, err) == [r EXCEPT !.Lost = @ + 1, !.Errors = Append(@, err)]

\* a cancellation that is counted as a lost attempt
CancelledAsLoss(r) ==
  [r EXCEPT !.Lost = @ + 1, !.Errors = Append(@, "context canceled")]

\* the ctx.Done() case of the loop's select: the result with ctx.Err() added
Cancelled(r) == [r EXCEPT !.Errors = Append(@, "context canceled")]

\* one iteration of the loop up to the blocking read of session.ping: the
\* select on ctx.Done(), the flush of pending replies (it reads until its
\* 1ms deadline: some prefix of what is queued), WriteTo, SetReadDeadline
Attempt(idx) ==
  /\ Alive
  /\ gpc[idx] = "loop"
  /\ loopI[idx] < config.Count
  /\ IF ctxDone
       THEN /\ Return(idx, Cancelled(result[idx]))
            /\ UNCHANGED <<loopI, lastRead>>
       ELSE \E n \in 0..Len(inbox[idx]) :
              LET rest == SubSeq(inbox[idx], n + 1, Len(inbox[idx]))
                  att == [seq |-> session[idx].seq, reads |-> 0, pkt |-> NoPacket,
                          ok |-> FALSE]
              IN  /\ inbox' = [inbox EXCEPT ![idx] = rest]
                  /\ \/ \E err \in env.sendErrs :
                          EndAttempt(idx, Failed(result[idx], err), att)
                     \/ /\ gpc' = [gpc EXCEPT ![idx] = "read"]
                        /\ lastRead' = [lastRead EXCEPT ![idx] = att]
                        /\ UNCHANGED <<result, session, loopI>>
                  /\ UNCHANGED <<results, writes>>
  /\ UNCHANGED <<nonPing, env, targetsStr, config, ctxDone, mainpc, retErr, spawned, wg,
                 semaphore, printed>>

\* a reply check that compares the identifier only
ClassifyIdOnly(s, pkt) ==
  IF pkt.type = "malformed" THEN "parsing ICMP reply"
  ELSE IF pkt.type = "EchoReply"
    THEN IF pkt.id # s.id THEN "received wrong ICMP reply" ELSE "ok"
    ELSE "received ICMP message of unexpected type"

\* the outcome of pingSession.ping for the packet its ReadFrom returned:
\* "ok" or the error
Classify(s, pkt) ==
  IF pkt.type = "malformed" THEN "parsing ICMP reply"
  ELSE IF pkt.type = "EchoReply"
    THEN IF pkt.id # s.id \/ pkt.seq # s.seq
           THEN "received wrong ICMP reply"
           ELSE "ok"
    ELSE "received ICMP message of unexpected type"

\* ReadFrom returns a packet: the rest of session.ping and of the iteration
Read(idx) ==
  /\ Alive
  /\ gpc[idx] = "read"
  /\ inbox[idx] # <<>>
  /\ LET pkt == Head(inbox[idx])
         out == Classify(session[idx], pkt)
         att == [seq |-> session[idx].seq, reads |-> lastRead[idx].reads + 1,
                 pkt |-> pkt, ok |-> out = "ok"]
     IN  /\ inbox' = [inbox EXCEPT ![idx] = Tail(@)]
         /\ IF out = "ok"
              THEN \E rtt \in env.rtts :
                     EndAttempt(idx, [result[idx] EXCEPT !.RTTs = Append(@, rtt)], att)
              ELSE EndAttempt(idx, Failed(result[idx], out), att)
  /\ UNCHANGED <<nonPing, env, targetsStr, config, ctxDone, mainpc, retErr, spawned, wg,
                 semaphore, results, writes, printed>>

\* ReadFrom hits the read deadline with nothing queued
ReadTimeout(idx) ==
  /\ Alive
  /\ gpc[idx] = "read"
  /\ inbox[idx] = <<>>
  /\ EndAttempt(idx, Failed(result[idx], "reading ICMP reply"),
                [seq |-> session[idx].seq, reads |-> lastRead[idx].reads + 1,
                 pkt |-> NoPacket, ok |-> FALSE])
  /\ UNCHANGED <<nonPing, env, targetsStr, config, ctxDone, mainpc, retErr, spawned, wg,
                 semaphore, inbox, results, writes, printed>>

\* the loop ran Count times: result.calculateStats(); return result
LoopExit(idx) ==
  /\ Alive
  /\ gpc[idx] = "loop"
  /\ loopI[idx] >= config.Count
  /\ Return(idx, calculateStats(result[idx]))
  /\ UNCHANGED <<nonPing, env, targetsStr, config, ctxDone, mainpc, retErr, spawned, wg,
                 semaphore, loopI, lastRead, printed>>

\* a goroutine that never takes its element back out of the semaphore
ExitKeepSlot(idx) ==
  /\ Alive
  /\ gpc[idx] = "exit"
  /\ wg' = wg - 1
  /\ gpc' = [gpc EXCEPT ![idx] = "done"]
  /\ UNCHANGED <<nonPing, env, targetsStr, config, ctxDone, mainpc, retErr, spawned,
                 semaphore, result, loopI, session, inbox, lastRead, results, writes,
                 printed>>

\* the deferred calls of the goroutine: <-semaphore, then wg.Done()
Exit(idx) ==
  /\ Alive
  /\ gpc[idx] = "exit"
  /\ semaphore' = semaphore - 1
  /\ wg' = wg - 1
  /\ gpc' = [gpc EXCEPT ![idx] = "done"]
  /\ UNCHANGED <<nonPing, env, targetsStr, config, ctxDone, mainpc, retErr, spawned,
                 result, loopI, session, inbox, lastRead, results, writes, printed>>

\* an ICMP packet reaches the host: every open raw socket with room in its
\* buffer queues a copy
Deliver(pkt) ==
  /\ Alive
  /\ \E i \in Idx : session[i].conn = "open" /\ Len(inbox[i]) < env.cap
  /\ inbox' = [i \in Idx |->
                 IF session[i].conn = "open" /\ Len(inbox[i]) < env.cap
                   THEN Append(inbox[i], pkt) ELSE inbox[i]]
  /\ UNCHANGED <<nonPing, env, targetsStr, config, ctxDone, mainpc, retErr, spawned, wg,
                 semaphore, gpc, result, loopI, session, lastRead, results, writes,
                 printed>>

(***************************************************************************)
(* Specifications of the ping runs.                                        *)
(***************************************************************************)
Workers == 1..MaxConc

\* the nil error of the transfer engine; its other errors are ErrOf values
NilError == <<0, 0>>

\* a worker that is not sending: v is a byte count, e an error
NoSend == [v |-> 0, e |-> NilError, next |-> "none"]

\* nothing carried yet: bytes the transport moved (read from a payload or
\* returned by a body Read), byte counts handed to bytesChan, POSTs answered
\* 200, whether one of them was answered before its payload was read in
\* full, and whether a transfer failed while the context was live
NoTally == [moved |-> 0, sent |-> 0, posts |-> 0, early |-> FALSE,
            liveFail |-> FALSE]

SplitIdle == input = <<>> /\ kept = <<>> /\ splitpc = "idle"

SeqIdle ==
  /\ attempt = 0
  /\ reply = NoPacket
  /\ verdict = "none"
  /\ seqpc = "idle"

XferIdle ==
  /\ xcfg = [Direction |-> "none", Concurrency |-> 0]
  /\ xpc = "idle"
  /\ xctxDone = FALSE
  /\ started = 0
  /\ xwg = 0
  /\ wpc = [w \in Workers |-> "idle"]
  /\ ops = 0
  /\ pending = [w \in Workers |-> NoSend]
  /\ bytesChan = <<>>
  /\ errChan = <<>>
  /\ closed = {}
  /\ closerpc = "idle"
  /\ totalBytes = 0
  /\ lastError = NilError
  /\ stats = [returned |-> FALSE, Bytes |-> 0, Error |-> NilError]
  /\ reader = [w \in Workers |-> 0]
  /\ tally = NoTally

\* RunPing with up to MaxTargets targets named on the command line
Init ==
  /\ env = OrchEnv
  /\ \E n \in 0..MaxTargets : targetsStr \in TargetInputs(n)
  /\ config \in [Targets : {<<>>}, Count : OrchCounts, Concurrency : -1..MaxConc]
  /\ mainpc = "RunPing"
  /\ PingIdle
  /\ SplitIdle
  /\ SeqIdle
  /\ XferIdle

\* RunPing with one target, any -count up to MaxCount and the full network
InitLoop ==
  /\ env = LoopEnv
  /\ targetsStr \in TargetInputs(1)
  /\ config \in [Targets : {<<>>}, Count : -1..MaxCount, Concurrency : {1}]
  /\ mainpc = "RunPing"
  /\ PingIdle
  /\ SplitIdle
  /\ SeqIdle
  /\ XferIdle

Next ==
  \/ NewPingConfig
  \/ pingTargetsBegin
  \/ Spawn
  \/ Wait
  \/ ReportResults
  \/ Cancel
  \/ \E idx \in Idx : Acquire(idx)
  \/ \E idx \in Idx : pingTargetOpen(idx)
  \/ \E idx \in Idx : Attempt(idx)
  \/ \E idx \in Idx : Read(idx)
  \/ \E idx \in Idx : ReadTimeout(idx)
  \/ \E idx \in Idx : LoopExit(idx)
  \/ \E idx \in Idx : Exit(idx)
  \/ \E pkt \in env.packets : Deliver(pkt)

vars == <<pingVars, splitVars, xferVars, seqVars>>

Spec == Init /\ [][Next]_vars

SpecLoop == InitLoop /\ [][Next]_vars

(***************************************************************************)
(* Claims about the ping orchestrator and the per-target loop.             *)
(***************************************************************************)
\* the goroutines inside a pingTarget call
Running == {i \in Idx : gpc[i] \in {"pingTarget", "loop", "read"}}

\* pingTargets is running, past the make of its semaphore
InPingTargets == mainpc \in {"spawn", "wait"}

\* pingTargets has returned its results
PingTargetsReturned ==
  mainpc = "printResults" \/ (mainpc = "returned" /\ retErr = "nil")

\* pingTarget of goroutine idx has returned; results[idx] holds what it returned
Returned(idx) == gpc[idx] \in {"exit", "done"}

\* C1: while pingTargets runs, the number of pingTarget calls executing is at
\* most config.Concurrency, whatever the targets and the interleaving.
C1_ConcurrencyBound ==
  (InPingTargets \/ Running # {}) => Cardinality(Running) <= config.Concurrency

\* two targets, room for one: one loop runs while the other goroutine waits
C1_Witness ==
  /\ config.Concurrency = 1
  /\ Cardinality(Running) = 1
  /\ \E i \in Idx : gpc[i] = "acquire"

\* C2: pingTargets returns one PingResult per target, the i-th carrying the
\* i-th target, failed targets included, and slot i was assigned once, by
\* goroutine i alone.
C2_OneResultPerTarget ==
  /\ PingTargetsReturned =>
       /\ Len(results) = Len(config.Targets)
       /\ \A i \in 1..Len(config.Targets) :
            /\ results[i].Target = config.Targets[i]
            /\ writes[i] = <<i>>
  /\ \A i \in Idx : \A k \in 1..Len(writes[i]) : writes[i][k] = i

\* two different targets, the first failed on every attempt, the second
\* measured a sample
C2_Witness ==
  /\ PingTargetsReturned
  /\ Len(results) = 2
  /\ results[1].Target # results[2].Target
  /\ results[1].RTTs = <<>> /\ results[1].Lost >= 1
  /\ results[2].RTTs # <<>>

NoCancelError(r) == \A k \in 1..Len(r.Errors) : r.Errors[k] # "context canceled"

\* C3: a result pingTarget returned without stopping on cancellation has
\* len(RTTs) + Lost = Count (resolution and socket failures included), and
\* inside the loop len(RTTs) + Lost is the number of attempts made, at most
\* Count.
C3_SamplesPlusLost ==
  \A idx \in Idx :
    /\ (Returned(idx) /\ (~ctxDone \/ NoCancelError(results[idx]))) =>
         Len(results[idx].RTTs) + results[idx].Lost = config.Count
    /\ gpc[idx] \in {"loop", "read"} =>
         /\ Len(result[idx].RTTs) + result[idx].Lost = loopI[idx]
         /\ loopI[idx] = session[idx].seq - 1
         /\ loopI[idx] <= config.Count

\* a completed loop with a sample and a loss, never cancelled
C3_Witness ==
  \E idx \in Idx :
    /\ Returned(idx) /\ ~ctxDone
    /\ results[idx].RTTs # <<>>
    /\ results[idx].Lost >= 1
    /\ config.Count = 2

RECURSIVE SumOf(_)
SumOf(q) == IF q = <<>> THEN 0 ELSE Head(q) + SumOf(Tail(q))

SeqMin(q) == CHOOSE m \in {q[k] : k \in 1..Len(q)} : \A k \in 1..Len(q) : m <= q[k]
SeqMax(q) == CHOOSE m \in {q[k] : k \in 1..Len(q)} : \A k \in 1..Len(q) : m >= q[k]

StatsAgree(r) ==
  /\ r.MinRTT <= r.AvgRTT /\ r.AvgRTT <= r.MaxRTT
  /\ r.MinRTT = SeqMin(r.RTTs)
  /\ r.MaxRTT = SeqMax(r.RTTs)
  /\ r.AvgRTT = SumOf(r.RTTs) \div Len(r.RTTs)

\* C4: every result pingTarget returns with N >= 1 samples has MinRTT and
\* MaxRTT the least and greatest sample, AvgRTT = sum / N and
\* MinRTT <= AvgRTT <= MaxRTT, on every exit path of the loop.
C4_StatsOnEveryExit ==
  \A idx \in Idx :
    (Returned(idx) /\ Len(results[idx].RTTs) >= 1) => StatsAgree(results[idx])

\* the rows printResults wrote for results without a sample
NoSampleRowsAreNA ==
  \A i \in 1..Len(printed) :
    /\ Len(results[i].RTTs) = 0 =>
         /\ printed[i].min = NA /\ printed[i].avg = NA /\ printed[i].max = NA
         /\ printed[i].lossNum = 100 /\ printed[i].lossDiv = 1
         /\ printed[i].divides = FALSE
    /\ printed[i].divides => (Len(results[i].RTTs) > 0 /\ printed[i].lossDiv # 0)

ZeroStats(r) == r.MinRTT = 0 /\ r.MaxRTT = 0 /\ r.AvgRTT = 0

\* C5 as stated: for Count >= 0 a returned result without a sample has
\* Lost = Count and zero statistics, and its row is N/A with 100% loss and
\* no division; the formatter divides only when there is a sample.
C5_AllFailed ==
  /\ \A idx \in Idx :
       (Returned(idx) /\ config.Count >= 0 /\ results[idx].RTTs = <<>>) =>
         (results[idx].Lost = config.Count /\ ZeroStats(results[idx]))
  /\ NoSampleRowsAreNA

\* C5 amended: the same, for results of loops that did not stop on
\* cancellation (a cancelled loop counts only the attempts it made).
C5_AllFailedUncancelled ==
  /\ \A idx \in Idx :
       (Returned(idx) /\ config.Count >= 0 /\ results[idx].RTTs = <<>>) =>
         /\ ZeroStats(results[idx])
         /\ NoCancelError(results[idx]) => results[idx].Lost = config.Count
  /\ NoSampleRowsAreNA

\* two attempts timed out or failed, and the row was printed
C5_Witness ==
  /\ mainpc = "returned" /\ retErr = "nil"
  /\ config.Count = 2
  /\ results[1].RTTs = <<>> /\ results[1].Lost = 2
  /\ Len(results[1].Errors) = 2
  /\ printed[1].min = NA /\ printed[1].lossNum = 100 /\ ~printed[1].divides

\* C6: an attempt appends an RTT sample only if the one packet it read after
\* sending is an Echo-Reply with the session's identifier and the sequence
\* number of the request just sent; any other packet read ends the attempt
\* as one lost packet, with no second read.
C6_Step(idx) ==
  LET att == lastRead'[idx]
      completed == gpc[idx] = "read" /\ gpc'[idx] = "loop"
      gotPacket == att.pkt # NoPacket
      matches == /\ att.pkt.type = "EchoReply"
                 /\ att.pkt.id = session[idx].id
                 /\ att.pkt.seq = session[idx].seq
      grew == Len(result'[idx].RTTs) > Len(result[idx].RTTs)
  IN  /\ grew => (completed /\ gotPacket /\ matches /\ att.reads = 1)
      /\ (completed /\ gotPacket /\ ~matches) =>
           /\ result'[idx].RTTs = result[idx].RTTs
           /\ result'[idx].Lost = result[idx].Lost + 1
           /\ att.reads = 1
           /\ session'[idx].seq = session[idx].seq + 1

C6_ReplyMatching == [][\A idx \in Idx : C6_Step(idx)]_vars

\* the second attempt read the stale reply to the first request and lost
C6_Witness ==
  \E idx \in Idx :
    /\ gpc[idx] = "loop"
    /\ lastRead[idx].seq = 2
    /\ lastRead[idx].pkt = EchoReply(Pid, 1)
    /\ ~lastRead[idx].ok
    /\ result[idx].Lost >= 1

\* C9: when icmp.ListenPacket fails for every target, RunPing returns a
\* non-nil error.
C9_SocketFailurePropagates ==
  (/\ mainpc = "returned"
   /\ Len(results) >= 1
   /\ \A i \in 1..Len(results) : results[i].Errors = <<"creating ICMP connection">>)
    => retErr # "nil"

(***************************************************************************)
(* Resolver runs: splitTargets applied to any string over Alphabet.        *)
(***************************************************************************)
Strings(n) == UNION {[1..k -> Alphabet] : k \in 0..n}

NoPing ==
  /\ env = OrchEnv
  /\ targetsStr = <<>>
  /\ config = [Targets |-> <<>>, Count |-> 0, Concurrency |-> 0]
  /\ mainpc = "idle"
  /\ PingIdle

InitSplit ==
  /\ input \in Strings(MaxLen)
  /\ kept = <<>>
  /\ splitpc = "call"
  /\ SeqIdle
  /\ NoPing
  /\ XferIdle

SplitCall ==
  /\ splitpc = "call"
  /\ kept' = splitTargets(input)
  /\ splitpc' = "done"
  /\ UNCHANGED <<input, pingVars, xferVars, seqVars>>

NextSplit == SplitCall

SpecSplit == InitSplit /\ [][NextSplit]_vars

\* the comma-separated segments of s, each trimmed
RECURSIVE TrimEach(_)
TrimEach(parts) ==
  IF parts = <<>> THEN <<>> ELSE <<TrimSpace(Head(parts))>> \o TrimEach(Tail(parts))

Segments(s) == TrimEach(StringsSplit(s, ","))

\* a segment the resolver is to keep: non-empty and an IP literal, or a
\* hostname of at most 255 characters without a whitespace character
ToBeKept(seg) ==
  /\ seg # <<>>
  /\ \/ ParseIP(seg)
     \/ (Len(seg) <= 255 /\ \A k \in 1..Len(seg) : ~IsSpace(seg[k]))

\* C7: splitTargets keeps exactly the trimmed, non-empty segments that are IP
\* literals or hostnames of at most 255 characters without whitespace, in
\* input order.
C7_KeepsExactlyValid ==
  splitpc = "done" => kept = SelectSeq(Segments(input), ToBeKept)

\* C8: the output of splitTargets holds no target twice.
C8_Deduplicated ==
  splitpc = "done" =>
    \A i, j \in 1..Len(kept) : i # j => kept[i] # kept[j]

(***************************************************************************)
(* Transfer engine: measureUploadSpeed / uploadWorker / uploadChunk        *)
(* (src/core/upload.go) and measureDownloadSpeed / downloadWorker /        *)
(* downloadChunk.  Both run the same engine; xcfg.Direction tells which.   *)
(***************************************************************************)
\* chunkSize: the payload of one POST
ChunkSize == 1048576

\* the read buffer of downloadChunk
BufSize == 32768

\* what one Read of the payload through the countingReader can return: the
\* whole payload or half of it
UploadCounts == {ChunkSize, ChunkSize \div 2}

\* what one Read of a response body can return
ReadCounts == {BufSize}


\* the workers inside uploadChunk / downloadChunk: one transfer operation each
Inflight == {w \in Workers : wpc[w] \in {"transfer", "body", "sendBytes"}}

\* the function up to its loop: the two make(chan, Concurrency), which
\* panic on a negative capacity, and context.WithTimeout
MeasureBegin ==
  /\ xpc = "measure"
  /\ xpc' = IF xcfg.Concurrency < 0 THEN "panic" ELSE "start"
  /\ UNCHANGED <<xcfg, xctxDone, started, xwg, wpc, ops, pending, bytesChan,
                 errChan, closed, closerpc, totalBytes, lastError, stats,
                 reader, tally>>
  /\ UNCHANGED <<pingVars, splitVars, seqVars>>

\* a loop that runs once more: i <= config.Concurrency
StartWorkerOneMore ==
  /\ xpc = "start"
  /\ started <= xcfg.Concurrency
  /\ xwg' = xwg + 1
  /\ started' = started + 1
  /\ wpc' = [wpc EXCEPT ![started + 1] = "check"]
  /\ UNCHANGED <<xcfg, xpc, xctxDone, ops, pending, bytesChan, errChan, closed,
                 closerpc, totalBytes, lastError, stats,
                 reader, tally>>
  /\ UNCHANGED <<pingVars, splitVars, seqVars>>

\* one iteration of the loop: wg.Add(1); go worker
StartWorker ==
  /\ xpc = "start"
  /\ started < xcfg.Concurrency
  /\ xwg' = xwg + 1
  /\ started' = started + 1
  /\ wpc' = [wpc EXCEPT ![started + 1] = "check"]
  /\ UNCHANGED <<xcfg, xpc, xctxDone, ops, pending, bytesChan, errChan, closed,
                 closerpc, totalBytes, lastError, stats,
                 reader, tally>>
  /\ UNCHANGED <<pingVars, splitVars, seqVars>>

\* the loop is over: the goroutine that waits and closes is started and the
\* function enters its collecting loop
StartCollect ==
  /\ xpc = "start"
  /\ started >= xcfg.Concurrency
  /\ closerpc' = "wait"
  /\ xpc' = "collect"
  /\ UNCHANGED <<xcfg, xctxDone, started, xwg, wpc, ops, pending, bytesChan,
                 errChan, closed, totalBytes, lastError, stats,
                 reader, tally>>
  /\ UNCHANGED <<pingVars, splitVars, seqVars>>

\* the timeout of the context fires (or the caller cancels)
Deadline ==
  /\ xpc \in {"start", "collect"}
  /\ ~xctxDone
  /\ xctxDone' = TRUE
  /\ UNCHANGED <<xcfg, xpc, started, xwg, wpc, ops, pending, bytesChan, errChan,
                 closed, closerpc, totalBytes, lastError, stats,
                 reader, tally>>
  /\ UNCHANGED <<pingVars, splitVars, seqVars>>

XAlive == xpc # "panic"

\* a worker that never looks at ctx.Done()
WorkerCheckDeaf(w) ==
  /\ XAlive
  /\ wpc[w] = "check"
  /\ ops < MaxOps
  /\ wpc' = [wpc EXCEPT ![w] = "transfer"]
  /\ ops' = ops + 1
  /\ reader' = [reader EXCEPT ![w] = 0]
  /\ UNCHANGED <<xcfg, xpc, xctxDone, started, xwg, pending, bytesChan, errChan,
                 closed, closerpc, totalBytes, lastError, stats, tally>>
  /\ UNCHANGED <<pingVars, splitVars, seqVars>>

\* the top of the worker's loop: return on ctx.Done(), else start a transfer
\* (uploadChunk wraps the payload in a countingReader whose count is 0)
WorkerCheck(w) ==
  /\ XAlive
  /\ wpc[w] = "check"
  /\ IF xctxDone
       THEN /\ wpc' = [wpc EXCEPT ![w] = "exited"]
            /\ xwg' = xwg - 1
            /\ UNCHANGED <<ops, reader>>
       ELSE /\ ops < MaxOps
            /\ wpc' = [wpc EXCEPT ![w] = "transfer"]
            /\ ops' = ops + 1
            /\ reader' = [reader EXCEPT ![w] = 0]
            /\ UNCHANGED xwg
  /\ UNCHANGED <<xcfg, xpc, xctxDone, started, pending, bytesChan, errChan,
                 closed, closerpc, totalBytes, lastError, stats, tally>>
  /\ UNCHANGED <<pingVars, splitVars, seqVars>>

\* the error of worker w's current transfer
ErrOf(w) == <<w, ops>>

\* client.Do fails (at once when the request's context is done), or (upload)
\* answers another status than 200: the chunk function returns the error and
\* its countingReader is dropped
TransferFails(w) ==
  /\ XAlive
  /\ wpc[w] \in {"transfer", "body"}
  /\ wpc' = [wpc EXCEPT ![w] = "sendErr"]
  /\ pending' = [pending EXCEPT ![w] = [v |-> 0, e |-> ErrOf(w), next |-> "backoff"]]
  /\ tally' = [tally EXCEPT !.liveFail = @ \/ ~xctxDone]
  /\ reader' = [reader EXCEPT ![w] = 0]
  /\ UNCHANGED <<xcfg, xpc, xctxDone, started, xwg, ops, bytesChan, errChan,
                 closed, closerpc, totalBytes, lastError, stats>>
  /\ UNCHANGED <<pingVars, splitVars, seqVars>>

\* the transport reads the next n bytes of the POST's payload through the
\* countingReader: count += n
PayloadRead(w) ==
  /\ XAlive
  /\ xcfg.Direction = "upload"
  /\ wpc[w] = "transfer"
  /\ \E n \in UploadCounts :
       /\ reader[w] + n <= ChunkSize
       /\ reader' = [reader EXCEPT ![w] = @ + n]
       /\ tally' = [tally EXCEPT !.moved = @ + n]
  /\ UNCHANGED <<xcfg, xpc, xctxDone, started, xwg, wpc, ops, pending, bytesChan,
                 errChan, closed, closerpc, totalBytes, lastError, stats>>
  /\ UNCHANGED <<pingVars, splitVars, seqVars>>

\* an upload that reports the size of the payload
TransferAnsweredNominal(w) ==
  /\ XAlive
  /\ wpc[w] = "transfer"
  /\ IF xcfg.Direction = "upload"
       THEN /\ wpc' = [wpc EXCEPT ![w] = "sendBytes"]
            /\ pending' = [pending EXCEPT ![w] = [v |-> ChunkSize, e |-> NilError, next |-> "check"]]
            /\ tally' = [tally EXCEPT !.posts = @ + 1,
                                      !.early = @ \/ reader[w] < ChunkSize]
       ELSE /\ wpc' = [wpc EXCEPT ![w] = "body"]
            /\ UNCHANGED <<pending, tally>>
  /\ reader' = [reader EXCEPT ![w] = 0]
  /\ UNCHANGED <<xcfg, xpc, xctxDone, started, xwg, ops, bytesChan, errChan,
                 closed, closerpc, totalBytes, lastError, stats>>
  /\ UNCHANGED <<pingVars, splitVars, seqVars>>

\* upload: the POST is answered 200, after the payload was read in full or
\* before; uploadChunk goes on to report reader.count, the last use of its
\* countingReader.  download: the GET is answered; downloadChunk reads the
\* body
TransferAnswered(w) ==
  /\ XAlive
  /\ wpc[w] = "transfer"
  /\ IF xcfg.Direction = "upload"
       THEN /\ wpc' = [wpc EXCEPT ![w] = "sendBytes"]
            /\ pending' = [pending EXCEPT ![w] = [v |-> reader[w], e |-> NilError, next |-> "check"]]
            /\ tally' = [tally EXCEPT !.posts = @ + 1,
                                      !.early = @ \/ reader[w] < ChunkSize]
       ELSE /\ wpc' = [wpc EXCEPT ![w] = "body"]
            /\ UNCHANGED <<pending, tally>>
  /\ reader' = [reader EXCEPT ![w] = 0]
  /\ UNCHANGED <<xcfg, xpc, xctxDone, started, xwg, ops, bytesChan, errChan,
                 closed, closerpc, totalBytes, lastError, stats>>
  /\ UNCHANGED <<pingVars, splitVars, seqVars>>

\* download: resp.Body.Read returns n > 0 bytes, with no error, with io.EOF
\* or with another error; the bytes are reported first
BodyRead(w) ==
  /\ XAlive
  /\ wpc[w] = "body"
  /\ ops < MaxOps
  /\ ops' = ops + 1
  /\ \E n \in ReadCounts, after \in {"body", "check", "sendErr"} :
       /\ wpc' = [wpc EXCEPT ![w] = "sendBytes"]
       /\ pending' = [pending EXCEPT ![w] = [v |-> n, e |-> NilError, next |-> after]]
       /\ tally' = [tally EXCEPT !.moved = @ + n,
                                 !.liveFail = @ \/ (after = "sendErr" /\ ~xctxDone)]
  /\ UNCHANGED <<xcfg, xpc, xctxDone, started, xwg, bytesChan, errChan,
                 closed, closerpc, totalBytes, lastError, stats, reader>>
  /\ UNCHANGED <<pingVars, splitVars, seqVars>>

\* download: resp.Body.Read returns 0 bytes and io.EOF
BodyEOF(w) ==
  /\ XAlive
  /\ wpc[w] = "body"
  /\ wpc' = [wpc EXCEPT ![w] = "check"]
  /\ UNCHANGED <<xcfg, xpc, xctxDone, started, xwg, ops, pending, bytesChan,
                 errChan, closed, closerpc, totalBytes, lastError, stats,
                 reader, tally>>
  /\ UNCHANGED <<pingVars, splitVars, seqVars>>

\* bytesChan <- n: blocks while the buffer is full, panics on a closed
\* channel
SendBytes(w) ==
  /\ XAlive
  /\ wpc[w] = "sendBytes"
  /\ IF "bytes" \in closed
       THEN /\ xpc' = "panic"
            /\ UNCHANGED <<bytesChan, wpc, pending, tally>>
       ELSE /\ Len(bytesChan) < xcfg.Concurrency
            /\ bytesChan' = Append(bytesChan, pending[w].v)
            /\ tally' = [tally EXCEPT !.sent = @ + pending[w].v]
            /\ IF pending[w].next = "sendErr"
                 THEN /\ wpc' = [wpc EXCEPT ![w] = "sendErr"]
                      /\ pending' = [pending EXCEPT ![w] =
                                       [v |-> 0, e |-> ErrOf(w), next |-> "backoff"]]
                 ELSE /\ wpc' = [wpc EXCEPT ![w] = pending[w].next]
                      /\ pending' = [pending EXCEPT ![w] = NoSend]
            /\ UNCHANGED xpc
  /\ UNCHANGED <<xcfg, xctxDone, started, xwg, ops, errChan, closed, closerpc,
                 totalBytes, lastError, stats, reader>>
  /\ UNCHANGED <<pingVars, splitVars, seqVars>>

\* errChan <- err: blocks while the buffer is full, panics on a closed
\* channel
SendErr(w) ==
  /\ XAlive
  /\ wpc[w] = "sendErr"
  /\ IF "err" \in closed
       THEN /\ xpc' = "panic"
            /\ UNCHANGED <<errChan, wpc, pending>>
       ELSE /\ Len(errChan) < xcfg.Concurrency
            /\ errChan' = Append(errChan, pending[w].e)
            /\ wpc' = [wpc EXCEPT ![w] = "backoff"]
            /\ pending' = [pending EXCEPT ![w] = NoSend]
            /\ UNCHANGED xpc
  /\ UNCHANGED <<xcfg, xctxDone, started, xwg, ops, bytesChan, closed, closerpc,
                 totalBytes, lastError, stats,
                 reader, tally>>
  /\ UNCHANGED <<pingVars, splitVars, seqVars>>

\* a worker that gives up after a failed transfer
BackoffGiveUp(w) ==
  /\ XAlive
  /\ wpc[w] = "backoff"
  /\ wpc' = [wpc EXCEPT ![w] = "exited"]
  /\ xwg' = xwg - 1
  /\ UNCHANGED <<xcfg, xpc, xctxDone, started, ops, pending, bytesChan,
                 errChan, closed, closerpc, totalBytes, lastError, stats,
                 reader, tally>>
  /\ UNCHANGED <<pingVars, splitVars, seqVars>>

\* the backoff sleep ends; continue
Backoff(w) ==
  /\ XAlive
  /\ wpc[w] = "backoff"
  /\ wpc' = [wpc EXCEPT ![w] = "check"]
  /\ UNCHANGED <<xcfg, xpc, xctxDone, started, xwg, ops, pending, bytesChan,
                 errChan, closed, closerpc, totalBytes, lastError, stats,
                 reader, tally>>
  /\ UNCHANGED <<pingVars, splitVars, seqVars>>

\* a closer that does not wait for the workers
CloseBytesEarly ==
  /\ XAlive
  /\ closerpc = "wait"
  /\ closed' = closed \cup {"bytes"}
  /\ closerpc' = "closeErr"
  /\ UNCHANGED <<xcfg, xpc, xctxDone, started, xwg, wpc, ops, pending, bytesChan,
                 errChan, totalBytes, lastError, stats, reader, tally>>
  /\ UNCHANGED <<pingVars, splitVars, seqVars>>

\* wg.Wait() returns; close(bytesChan)
CloseBytes ==
  /\ XAlive
  /\ closerpc = "wait"
  /\ xwg = 0
  /\ closed' = closed \cup {"bytes"}
  /\ closerpc' = "closeErr"
  /\ UNCHANGED <<xcfg, xpc, xctxDone, started, xwg, wpc, ops, pending, bytesChan,
                 errChan, totalBytes, lastError, stats,
                 reader, tally>>
  /\ UNCHANGED <<pingVars, splitVars, seqVars>>

\* close(errChan)
CloseErr ==
  /\ XAlive
  /\ closerpc = "closeErr"
  /\ closed' = closed \cup {"err"}
  /\ closerpc' = "done"
  /\ UNCHANGED <<xcfg, xpc, xctxDone, started, xwg, wpc, ops, pending, bytesChan,
                 errChan, totalBytes, lastError, stats,
                 reader, tally>>
  /\ UNCHANGED <<pingVars, splitVars, seqVars>>

\* the collector's select receives a byte count
CollectBytes ==
  /\ xpc = "collect"
  /\ bytesChan # <<>>
  /\ totalBytes' = totalBytes + Head(bytesChan)
  /\ bytesChan' = Tail(bytesChan)
  /\ UNCHANGED <<xcfg, xpc, xctxDone, started, xwg, wpc, ops, pending, errChan,
                 closed, closerpc, lastError, stats,
                 reader, tally>>
  /\ UNCHANGED <<pingVars, splitVars, seqVars>>

\* the collector's select finds bytesChan closed and drained: it returns
CollectClosed ==
  /\ xpc = "collect"
  /\ bytesChan = <<>>
  /\ "bytes" \in closed
  /\ stats' = [returned |-> TRUE, Bytes |-> totalBytes, Error |-> lastError]
  /\ xpc' = "returned"
  /\ UNCHANGED <<xcfg, xctxDone, started, xwg, wpc, ops, pending, bytesChan,
                 errChan, closed, closerpc, totalBytes, lastError,
                 reader, tally>>
  /\ UNCHANGED <<pingVars, splitVars, seqVars>>

\* a collector whose select has no case for errChan
CollectErrNever ==
  /\ xpc = "collect"
  /\ errChan # <<>>
  /\ UNCHANGED xferVars
  /\ UNCHANGED <<pingVars, splitVars, seqVars>>

\* the collector's select receives an error
CollectErr ==
  /\ xpc = "collect"
  /\ errChan # <<>>
  /\ lastError' = Head(errChan)
  /\ errChan' = Tail(errChan)
  /\ UNCHANGED <<xcfg, xpc, xctxDone, started, xwg, wpc, ops, pending, bytesChan,
                 closed, closerpc, totalBytes, stats,
                 reader, tally>>
  /\ UNCHANGED <<pingVars, splitVars, seqVars>>

\* the collector's select receives nil from the closed, drained errChan
CollectErrClosed ==
  /\ xpc = "collect"
  /\ errChan = <<>>
  /\ "err" \in closed
  /\ UNCHANGED xferVars
  /\ UNCHANGED <<pingVars, splitVars, seqVars>>

InitTransfer ==
  /\ xcfg \in [Direction : {"upload", "download"}, Concurrency : -1..MaxConc]
  /\ xpc = "measure"
  /\ xctxDone = FALSE
  /\ started = 0
  /\ xwg = 0
  /\ wpc = [w \in Workers |-> "idle"]
  /\ ops = 0
  /\ pending = [w \in Workers |-> NoSend]
  /\ bytesChan = <<>>
  /\ errChan = <<>>
  /\ closed = {}
  /\ closerpc = "idle"
  /\ totalBytes = 0
  /\ lastError = NilError
  /\ stats = [returned |-> FALSE, Bytes |-> 0, Error |-> NilError]
  /\ reader = [w \in Workers |-> 0]
  /\ tally = NoTally
  /\ NoPing
  /\ SplitIdle
  /\ SeqIdle

NextTransfer ==
  \/ MeasureBegin
  \/ StartWorker
  \/ StartCollect
  \/ Deadline
  \/ \E w \in Workers : WorkerCheck(w)
  \/ \E w \in Workers : TransferFails(w)
  \/ \E w \in Workers : PayloadRead(w)
  \/ \E w \in Workers : TransferAnswered(w)
  \/ \E w \in Workers : BodyRead(w)
  \/ \E w \in Workers : BodyEOF(w)
  \/ \E w \in Workers : SendBytes(w)
  \/ \E w \in Workers : SendErr(w)
  \/ \E w \in Workers : Backoff(w)
  \/ CloseBytes
  \/ CloseErr
  \/ CollectBytes
  \/ CollectClosed
  \/ CollectErr
  \/ CollectErrClosed

SpecTransfer == InitTransfer /\ [][NextTransfer]_vars

\* the steps of worker w's goroutine
WorkerStep(w) ==
  \/ WorkerCheck(w)
  \/ TransferFails(w)
  \/ PayloadRead(w)
  \/ TransferAnswered(w)
  \/ BodyRead(w)
  \/ BodyEOF(w)
  \/ SendBytes(w)
  \/ SendErr(w)
  \/ Backoff(w)

\* The same runs under the scheduling the Go runtime gives: every goroutine
\* that can take a step eventually takes one, the timer of the context
\* fires, a transfer in flight returns (the requests carry the context), and
\* a select whose case stays ready eventually takes that case (select picks
\* among the ready cases at random).
SpecTransferFair ==
  /\ InitTransfer
  /\ [][NextTransfer]_vars
  /\ WF_vars(MeasureBegin \/ StartWorker \/ StartCollect)
  /\ WF_vars(Deadline)
  /\ \A w \in Workers : WF_vars(WorkerStep(w))
  /\ WF_vars(CloseBytes \/ CloseErr)
  /\ WF_vars(CollectBytes)
  /\ WF_vars(CollectErr)
  /\ WF_vars(CollectClosed)

(***************************************************************************)
(* Claims about the transfer engine.                                       *)
(***************************************************************************)
\* the function is past its make calls
Measuring == xpc \in {"start", "collect", "returned"}

\* C10: the engine starts exactly config.Concurrency workers, a worker is in
\* at most one transfer operation at a time, and the number of transfer
\* operations in progress never exceeds config.Concurrency.
C10_TransferBound ==
  Measuring =>
    /\ started <= xcfg.Concurrency
    /\ xpc \in {"collect", "returned"} => started = xcfg.Concurrency
    /\ \A w \in Workers : wpc[w] # "idle" <=> w <= started
    /\ Cardinality(Inflight) <= xcfg.Concurrency

\* every worker of a run with two workers is inside a transfer
C10_Witness ==
  /\ xpc = "collect"
  /\ xcfg.Concurrency = 2
  /\ \A w \in 1..2 : wpc[w] = "transfer"

\* the workers the loop has started
Started == {w \in Workers : w <= started}

\* C11: the result channel is closed only after every worker has exited; the
\* total in the returned stats is read after the collector saw the channel
\* closed and drained, and it is the sum of the byte counts the workers sent
\* on the channel: at every moment the accumulator plus what is still
\* buffered is what was sent, so no count is dropped or added twice; and the
\* accumulator never decreases.
C11_Inv ==
  /\ xpc # "panic"
  /\ "bytes" \in closed => \A w \in Started : wpc[w] = "exited"
  /\ totalBytes + SumOf(bytesChan) = tally.sent
  /\ stats.returned =>
       /\ "bytes" \in closed
       /\ bytesChan = <<>>
       /\ stats.Bytes = tally.sent

C11_TotalIsSumOfSent ==
  /\ [](Measuring => C11_Inv)
  /\ [][totalBytes' >= totalBytes]_vars

\* two workers sent a count each, the collector added both and returned
C11_Witness ==
  /\ stats.returned
  /\ xcfg.Concurrency = 2
  /\ stats.Bytes > 0
  /\ tally.sent >= 2 * BufSize
  /\ \A w \in 1..2 : wpc[w] = "exited"

\* the error a worker put on errChan last: errChan is first-in first-out, so
\* it is the newest one still buffered, or else the one the collector
\* received last (NilError when there was none)
MostRecentReported ==
  IF errChan # <<>> THEN errChan[Len(errChan)] ELSE lastError

\* C12: the Error of the returned stats is the most recent error a worker
\* reported on the error channel, and is nil only if none was reported: the
\* collector has received every error sent before it returns.
C12_LastErrorSurfaced ==
  stats.returned =>
    /\ errChan = <<>>
    /\ stats.Error = MostRecentReported

\* C13: a transfer run always terminates: once the workers are being started,
\* eventually every worker has left its loop, both channels are closed and the
\* collector has returned stats that carry the bytes counted so far, whatever
\* the transport did, a transport that never completes a request included.
C13_Done ==
  /\ stats.returned
  /\ stats.Bytes = totalBytes
  /\ \A w \in Started : wpc[w] = "exited"
  /\ closed = {"bytes", "err"}

C13_RunTerminates == (xpc = "start") ~> C13_Done

\* the run of two workers is over and no request was ever completed
C13_Witness ==
  /\ C13_Done
  /\ xcfg.Concurrency = 2
  /\ ops >= 2
  /\ tally.moved = 0
  /\ stats.Bytes = 0

\* C14: the bytes a transfer had moved when cancellation cut it off are in
\* the final total, in both directions: in a run whose transfers failed only
\* after the context was done, the returned total is every byte the
\* transport moved (read from a payload, or returned by a body Read).
C14_PartialBytesCounted ==
  (stats.returned /\ ~tally.liveFail) => stats.Bytes = tally.moved

\* the same for the download direction alone
C14_DownloadPartialCounted ==
  (stats.returned /\ xcfg.Direction = "download") => stats.Bytes = tally.moved

\* one step of upload worker w as C15 allows it: a POST answered 200 goes on
\* to report the count its countingReader holds, a POST that fails reports
\* nothing, and only a worker that is reporting adds to bytesChan
C15_Step(w) ==
  /\ (wpc[w] = "transfer" /\ wpc'[w] = "sendBytes") =>
        pending'[w].v = reader[w]
  /\ (wpc[w] = "transfer" /\ wpc'[w] = "sendErr") =>
        /\ bytesChan' = bytesChan
        /\ tally'.sent = tally.sent
        /\ pending'[w].v = 0
  /\ wpc'[w] = "sendBytes" => wpc[w] \in {"transfer", "sendBytes"}

\* C15: the byte count an upload worker reports for a POST is the number of
\* bytes the transport read from that POST's payload reader, not the size of
\* the payload; a POST that fails or is not answered 200 reports nothing; so
\* when every POST answered 200 had its payload read in full, the returned
\* BytesSent is 1 MiB times the number of POSTs answered 200.
C15_UploadCountsReadBytes ==
  /\ [][xcfg.Direction = "upload" => \A w \in Workers : C15_Step(w)]_vars
  /\ []((stats.returned /\ xcfg.Direction = "upload" /\ ~tally.early) =>
          stats.Bytes = ChunkSize * tally.posts)

\* a run whose first POST was answered 200 after half the payload and
\* reported that half, and whose second POST was answered after all of it
C15_Witness ==
  /\ stats.returned
  /\ xcfg.Direction = "upload"
  /\ tally.posts = 2
  /\ tally.early
  /\ stats.Bytes = ChunkSize + (ChunkSize \div 2)

\* one step of worker w as C19 allows it: a failed transfer puts one error
\* on errChan and leads to the backoff, the backoff leads to the cancellation
\* check, and the worker leaves its loop from that check only, with the
\* context done
C19_Step(w) ==
  /\ (wpc[w] = "sendErr" /\ wpc'[w] # "sendErr") =>
        /\ wpc'[w] = "backoff"
        /\ errChan' = Append(errChan, pending[w].e)
        /\ pending[w].e # NilError
  /\ (wpc[w] = "backoff" /\ wpc'[w] # "backoff") =>
        /\ wpc'[w] = "check"
        /\ errChan' = errChan
  /\ (wpc[w] # "exited" /\ wpc'[w] = "exited") =>
        wpc[w] = "check" /\ xctxDone
  /\ (wpc[w] = "check" /\ wpc'[w] # "check" /\ ~xctxDone) =>
        wpc'[w] = "transfer"

\* C19: a worker never leaves its loop because a transfer failed: it sends
\* one error, backs off and is back at the cancellation check, which is the
\* only way out and is taken only when the context is done; with the context
\* live the check starts the next transfer.
C19_OnlyCancellationEndsWorker ==
  [][\A w \in Workers : C19_Step(w)]_vars

\* an upload worker starts its next POST after a failed one, the context
\* live
C19_Witness ==
  /\ ~xctxDone
  /\ xcfg.Direction = "upload"
  /\ \E w \in Workers :
       /\ wpc[w] = "transfer"
       /\ ops = MaxOps
       /\ xcfg.Concurrency = 1
       /\ tally.liveFail
       /\ tally.posts = 0
       /\ tally.moved = 0

(***************************************************************************)
(* More claims about the per-target loop and the sessions.                 *)
(***************************************************************************)
\* goroutine idx starts an attempt in this step: it goes on to session.ping
StartsAttempt(idx) ==
  /\ gpc[idx] = "loop"
  /\ lastRead'[idx] # lastRead[idx] \/ gpc'[idx] = "read"

\* goroutine idx leaves the loop through the ctx.Done() case in this step
StopsOnCancel(idx) ==
  /\ gpc[idx] = "loop"
  /\ loopI[idx] < config.Count
  /\ ctxDone
  /\ gpc'[idx] # "loop"

C16_Step(idx) ==
  /\ StartsAttempt(idx) => ~ctxDone
  /\ (gpc[idx] = "loop" /\ loopI[idx] < config.Count /\ ctxDone) =>
        (gpc'[idx] = "loop" \/ StopsOnCancel(idx))
  /\ StopsOnCancel(idx) =>
        /\ gpc'[idx] = "exit"
        /\ lastRead'[idx] = lastRead[idx]
        /\ session'[idx].seq = session[idx].seq
        /\ results'[idx].Errors = Append(result[idx].Errors, "context canceled")
        /\ results'[idx].Lost = result[idx].Lost
        /\ results'[idx].RTTs = result[idx].RTTs
        /\ Len(results'[idx].RTTs) + results'[idx].Lost < config.Count
  /\ gpc[idx] \in {"exit", "done"} =>
        /\ gpc'[idx] \in {"exit", "done"}
        /\ lastRead'[idx] = lastRead[idx]
        /\ results'[idx] = results[idx]

\* C16: the loop looks at the cancellation signal before each attempt; when
\* it is cancelled the loop makes neither that attempt nor a later one, adds
\* the cancellation error to Errors and leaves Lost and RTTs as they are, so
\* the returned result has len(RTTs) + Lost < Count.
C16_CancelStopsLoop == [][\A idx \in Idx : C16_Step(idx)]_vars

\* a loop of two was cancelled after its first attempt got a reply
C16_Witness ==
  \E idx \in Idx :
    /\ gpc[idx] = "exit"
    /\ config.Count = 2
    /\ Len(results[idx].RTTs) = 1
    /\ results[idx].Lost = 0
    /\ results[idx].Errors = <<"context canceled">>

\* goroutine idx ends an attempt in this step, whatever its outcome
EndsAttempt(idx) ==
  /\ gpc[idx] \in {"loop", "read"}
  /\ loopI'[idx] # loopI[idx]

C17_Step(idx) ==
  /\ session[idx].conn # "none" => session'[idx].id = session[idx].id
  /\ EndsAttempt(idx) =>
        /\ loopI'[idx] = loopI[idx] + 1
        /\ session'[idx].seq = session[idx].seq + 1
        /\ lastRead'[idx].seq = session[idx].seq
  /\ (session[idx].conn # "none" /\ ~EndsAttempt(idx)) =>
        session'[idx].seq = session[idx].seq

\* C17: the identifier of a session never changes; its sequence number
\* starts at 1 and grows by exactly 1 after every attempt, whatever the
\* attempt's outcome (reply, timeout, mismatch, failure before sending), and
\* at no other time; so the k-th attempt carries sequence number k.
C17_SequencePerAttempt ==
  /\ [](\A idx \in Idx :
          session[idx].conn # "none" =>
            /\ session[idx].id = Pid
            /\ session[idx].seq = loopI[idx] + 1
            /\ gpc[idx] = "read" => lastRead[idx].seq = loopI[idx] + 1)
  /\ [][\A idx \in Idx : C17_Step(idx)]_vars

\* the session is at sequence number 3 after a lost attempt and a reply
C17_Witness ==
  \E idx \in Idx :
    /\ gpc[idx] = "loop"
    /\ loopI[idx] = 2
    /\ session[idx].seq = 3
    /\ result[idx].Lost = 1
    /\ Len(result[idx].RTTs) = 1
    /\ lastRead[idx].seq = 2
    /\ lastRead[idx].reads = 0

C18_Step(idx) ==
  /\ session'[idx].conn # session[idx].conn =>
        \/ /\ session[idx].conn = "none"
           /\ session'[idx].conn = "open"
           /\ gpc[idx] = "pingTarget"
        \/ /\ session[idx].conn = "open"
           /\ session'[idx].conn = "closed"
           /\ gpc[idx] = "loop"
           /\ gpc'[idx] = "exit"
  /\ (StartsAttempt(idx) \/ gpc[idx] = "read") => session[idx].conn = "open"

\* C18: a per-target loop opens at most one raw socket and closes it exactly
\* once, before pingTarget returns, on every way out (the loop ran to its
\* end, cancellation, any mix of failed attempts); no socket is opened when
\* the address does not resolve; no attempt uses a closed socket.
C18_SocketDiscipline ==
  /\ [](\A idx \in Idx :
          /\ gpc[idx] \in {"loop", "read"} <=> session[idx].conn = "open"
          /\ gpc[idx] \in {"exit", "done"} => session[idx].conn \in {"none", "closed"}
          /\ (gpc[idx] \in {"exit", "done"}
                /\ results[idx].Errors # <<>>
                /\ Head(results[idx].Errors) \in {"resolving address",
                                                   "creating ICMP connection"})
               => session[idx].conn = "none")
  /\ [][\A idx \in Idx : C18_Step(idx)]_vars

\* pingTarget returned on cancellation, after a lost attempt, socket closed
C18_Witness ==
  \E idx \in Idx :
    /\ gpc[idx] = "exit"
    /\ session[idx].conn = "closed"
    /\ results[idx].Lost = 1
    /\ results[idx].Errors[Len(results[idx].Errors)] = "context canceled"

\* the packet goroutine idx reads in this step answers the request another
\* running session is waiting on: it comes from that session's target, not
\* from idx's own, and carries that session's identifier and sequence number
AnswersAnother(idx, pkt) ==
  \E j \in Idx \ {idx} :
    /\ gpc[j] = "read"
    /\ session[j].target = pkt.src
    /\ session[idx].target # pkt.src
    /\ pkt.type = "EchoReply"
    /\ pkt.id = session[j].id
    /\ pkt.seq = session[j].seq

\* goroutine idx records a sample in this step
RecordsSample(idx) ==
  /\ gpc[idx] = "read"
  /\ Len(result'[idx].RTTs) = Len(result[idx].RTTs) + 1

\* C20: with two or more loops running, a sample is recorded for a target
\* only in response to an echo reply from that target: a reply that answers
\* the request of another running session is never taken as a match.
C20_OwnReplyOnly ==
  [][\A idx \in Idx :
       RecordsSample(idx) =>
         /\ inbox[idx] # <<>>
         /\ ~AnswersAnother(idx, Head(inbox[idx]))]_vars

(***************************************************************************)
(* The sequence number on the wire: the reply check of a session's k-th    *)
(* attempt, for k near 1 and near the end of the 16-bit range (SpecSeq).   *)
(***************************************************************************)
\* width of the ID and Seq fields of an ICMP echo message
SeqBits == 16

\* what msg.Marshal puts in a 16-bit field for the int n, and what
\* icmp.ParseMessage reads back from it
WireField(n) == n % (2 ^ SeqBits)

\* the session of pingTarget in its k-th attempt: seq starts at 1 and
\* session.seq++ has run k - 1 times
SessionAt(k) == [conn |-> "open", id |-> Pid, seq |-> k, target |-> <<"a">>]

\* the echo reply the target sends to the request session s has written: a
\* copy of the identifier and sequence number fields of the request
EchoOf(s) == EchoReplyFrom(s.target, WireField(s.id), WireField(s.seq))

\* the attempt numbers of SpecSeq
AttemptNumbers ==
  (1..SeqSpan) \cup {2 ^ SeqBits + d : d \in (0 - SeqSpan)..SeqSpan}

\* the session has written the request of its k-th attempt
InitSeq ==
  /\ attempt \in AttemptNumbers
  /\ reply = NoPacket
  /\ verdict = "none"
  /\ seqpc = "written"
  /\ NoPing
  /\ SplitIdle
  /\ XferIdle

\* ReadFrom and icmp.ParseMessage return the target's reply to this request
AnswerRequest ==
  /\ seqpc = "written"
  /\ reply' = EchoOf(SessionAt(attempt))
  /\ seqpc' = "replied"
  /\ UNCHANGED <<attempt, verdict, pingVars, splitVars, xferVars>>

\* ReadFrom and icmp.ParseMessage return the target's late reply to the
\* request before this one
AnswerPrevious ==
  /\ seqpc = "written"
  /\ attempt > 1
  /\ reply' = EchoOf(SessionAt(attempt - 1))
  /\ seqpc' = "replied"
  /\ UNCHANGED <<attempt, verdict, pingVars, splitVars, xferVars>>

\* the type switch of pingSession.ping on the reply
CheckReply ==
  /\ seqpc = "replied"
  /\ verdict' = Classify(SessionAt(attempt), reply)
  /\ seqpc' = "checked"
  /\ UNCHANGED <<attempt, reply, pingVars, splitVars, xferVars>>

NextSeq ==
  \/ AnswerRequest
  \/ AnswerPrevious
  \/ CheckReply

SpecSeq == InitSeq /\ [][NextSeq]_vars

\* the reply that was checked echoes the request of the attempt
CheckedOwnEcho ==
  /\ seqpc = "checked"
  /\ reply = EchoOf(SessionAt(attempt))

\* C21: the sequence check agrees with the 16-bit field on the wire for every
\* attempt number: the reply that correctly echoes the k-th request is
\* accepted for every k >= 1, beyond 65535 too.
C21_SeqCheckMatchesWire == CheckedOwnEcho => verdict = "ok"

\* the same for the attempts whose number fits the 16-bit field
C21_AcceptedWithinRange ==
  (CheckedOwnEcho /\ attempt < 2 ^ SeqBits) => verdict = "ok"

(***************************************************************************)
(* RunPing on a network that never answers, under the scheduling the Go    *)
(* runtime gives (SpecWait): what is left is the semaphore and the wait.   *)
(***************************************************************************)
\* no packet arrives: an attempt ends in a send error or in the read deadline
QuietEnv ==
  [rtts |-> {RttUnit},
   packets |-> {},
   sendErrs |-> {"sending ICMP message"},
   cap |-> 1]

InitWait ==
  /\ env = QuietEnv
  /\ \E n \in 0..MaxTargets : targetsStr \in TargetInputs(n)
  /\ config \in [Targets : {<<>>}, Count : OrchCounts, Concurrency : -1..MaxConc]
  /\ mainpc = "RunPing"
  /\ PingIdle
  /\ SplitIdle
  /\ SeqIdle
  /\ XferIdle

\* the steps of the goroutine RunPing runs on
MainStep ==
  \/ NewPingConfig
  \/ pingTargetsBegin
  \/ Spawn
  \/ Wait
  \/ ReportResults

\* the steps of the goroutine of target idx
GoStep(idx) ==
  \/ Acquire(idx)
  \/ pingTargetOpen(idx)
  \/ Attempt(idx)
  \/ ReadTimeout(idx)
  \/ LoopExit(idx)
  \/ Exit(idx)

NextWait ==
  \/ MainStep
  \/ Cancel
  \/ \E idx \in Idx : GoStep(idx)

\* every goroutine that can take a step eventually takes one; a blocked
\* channel send or wg.Wait() is a step that cannot be taken
SpecWait ==
  /\ InitWait
  /\ [][NextWait]_vars
  /\ WF_vars(MainStep)
  /\ \A idx \in Idx : WF_vars(GoStep(idx))

\* the goroutines pingTargets starts
Targets == 1..Len(config.Targets)

\* pingTargets has returned, every goroutine having run and released
C22_Returned ==
  /\ PingTargetsReturned
  /\ semaphore = 0
  /\ \A idx \in Targets : gpc[idx] = "done"

\* pingTargets is called with a semaphore of no capacity (or none at all)
C22_NoRoom ==
  /\ Len(config.Targets) >= 1
  /\ config.Concurrency < 1

\* C22: when every pingTarget call returns (Count >= 0), pingTargets returns
\* if and only if Concurrency >= 1 (RunPing never calls it with no target):
\* with Concurrency >= 1 every goroutine eventually acquires the semaphore,
\* runs and releases it and the wait completes; with Concurrency = 0 no
\* goroutine ever acquires it and the wait never completes.
C22_ReturnsIffRoom ==
  /\ (mainpc = "pingTargets" /\ config.Concurrency >= 1 /\ config.Count >= 0)
       ~> C22_Returned
  /\ [](C22_NoRoom =>
          /\ ~PingTargetsReturned
          /\ \A idx \in Idx : gpc[idx] \in {"idle", "acquire"})

\* two targets took turns on a semaphore of one and pingTargets returned
C22_Witness ==
  /\ C22_Returned
  /\ config.Concurrency = 1
  /\ Len(config.Targets) = 2
  /\ config.Count = 1

\* with no room every goroutine is blocked on its send and RunPing in wait
C22_Stuck ==
  /\ config.Concurrency = 0
  /\ Len(config.Targets) = 2
  /\ mainpc = "wait"
  /\ \A idx \in Targets : gpc[idx] = "acquire"

(***************************************************************************)
(* The sends of the workers against the closes and the collector.          *)
(***************************************************************************)
\* worker w is at a channel send
AtSend(w) == wpc[w] \in {"sendBytes", "sendErr"}

\* no send meets a closed channel, and a channel is closed only after every
\* worker has exited
C23_NoSendOnClosed ==
  /\ xpc # "panic"
  /\ \A w \in Started :
       /\ wpc[w] = "sendBytes" => "bytes" \notin closed
       /\ wpc[w] = "sendErr" => "err" \notin closed
  /\ closed # {} => \A w \in Started : wpc[w] = "exited"

\* the collector has not returned while a worker is at a send
C23_CollectorReceiving ==
  (\E w \in Started : AtSend(w)) => xpc \in {"start", "collect"}

\* C23: for every Concurrency >= 1, no worker sends on a closed channel (the
\* channels are closed only after all workers have exited), the collector
\* has not returned while a worker is at a send, and no worker stays at a
\* send to bytesChan or errChan forever.
C23_SendsComplete ==
  /\ []((Measuring /\ xcfg.Concurrency >= 1) =>
          (C23_NoSendOnClosed /\ C23_CollectorReceiving))
  /\ \A w \in Workers :
       /\ (xcfg.Concurrency >= 1 /\ wpc[w] = "sendBytes") ~> (wpc[w] # "sendBytes")
       /\ (xcfg.Concurrency >= 1 /\ wpc[w] = "sendErr") ~> (wpc[w] # "sendErr")

\* after the deadline a worker is at its send of an error with errChan full
C23_Witness ==
  /\ xcfg.Concurrency >= 1
  /\ xctxDone
  /\ xpc = "collect"
  /\ \E w \in Started :
       /\ wpc[w] = "sendErr"
       /\ Len(errChan) = xcfg.Concurrency

(***************************************************************************)
(* A transfer in flight when the deadline fires.                           *)
(***************************************************************************)
\* worker w is inside its HTTP exchange: client.Do or the reads of the body
InExchange(w) == wpc[w] \in {"transfer", "body"}

\* this step takes worker w out of an exchange that the deadline caught
LeavesCaught(w) ==
  /\ xctxDone
  /\ InExchange(w)
  /\ wpc'[w] # wpc[w]

\* ... as a failure: the next thing it sends is this transfer's error
\* (after the bytes of a body read that came with the error)
AsFailure(w) ==
  \/ wpc'[w] = "sendErr" /\ pending'[w].e = ErrOf(w)
  \/ wpc'[w] = "sendBytes" /\ pending'[w].next = "sendErr"

\* ... as a success: the response or the rest of the body still came
AsSuccess(w) ==
  \/ wpc[w] = "transfer" /\ xcfg.Direction = "upload"
       /\ wpc'[w] = "sendBytes" /\ pending'[w].next = "check"
  \/ wpc[w] = "transfer" /\ xcfg.Direction = "download" /\ wpc'[w] = "body"
  \/ wpc[w] = "body" /\ wpc'[w] = "sendBytes" /\ pending'[w].next \in {"body", "check"}
  \/ wpc[w] = "body" /\ wpc'[w] = "check"

\* an error is sent, then the backoff is slept, then the loop re-checks; a
\* worker exits only at the loop check, on observing cancellation
ErrorThenBackoff(w) ==
  /\ (wpc[w] = "sendErr" /\ wpc'[w] # "sendErr") =>
       (wpc'[w] = "backoff" /\ errChan' = Append(errChan, pending[w].e))
  /\ (wpc[w] = "backoff" /\ wpc'[w] # "backoff") => wpc'[w] = "check"
  /\ (wpc[w] # "exited" /\ wpc'[w] = "exited") => (wpc[w] = "check" /\ xctxDone)

C24_Step ==
  \A w \in Workers :
    /\ LeavesCaught(w) => AsFailure(w)
    /\ ErrorThenBackoff(w)

\* C24: a transfer in flight when the deadline fires is handled like a
\* transport failure: its worker sends an error on errChan and sleeps the
\* backoff before it re-checks cancellation and exits; a worker exits only
\* at the loop check.
C24_InFlightHandledAsFailure == [][C24_Step]_vars

C24_EitherStep ==
  \A w \in Workers :
    /\ LeavesCaught(w) => (AsFailure(w) \/ AsSuccess(w))
    /\ ErrorThenBackoff(w)

\* What the workers do guarantee: a transfer in flight when the deadline
\* fires either fails, and then its worker sends an error on errChan and
\* sleeps the backoff before it re-checks cancellation and exits, or still
\* completes, and then its worker reports it as a success and exits at the
\* next loop check without an error.
C24_InFlightFailsOrCompletes == [][C24_EitherStep]_vars

====
